---- MODULE Spec2Model ----
(***************************************************************************)
(* A model of lidarSuit's wind retrievals:                                 *)
(*   windPropRetrieval.py          fftWindPropRet, getWindProperties5Beam  *)
(*   wind_prop_retrieval_6_beam.py SixBeamMethod                           *)
(*                                                                         *)
(* Numbers.  A float is held as an exact rational <<n, d>> in lowest terms *)
(* with d > 0; NaN (a masked or missing value) is <<0, 0>>.  Angles are    *)
(* integers in tenths of a degree (the code rounds them with .round(1)),   *)
(* raw angles of the input in hundredths.  Cosines and sines are taken     *)
(* from a table of angles whose cosine (and, for the six-beam geometry,    *)
(* sine) is rational, so that every product of the code is computed        *)
(* exactly.                                                                *)
(*                                                                         *)
(* Arrays.  A DataArray along 'time' is a sequence of records [t, v] in    *)
(* the order of its index, built as <<>> \o [i \in .. |-> ..] so that it   *)
(* is held as a tuple.  One range gate is modelled: every operation of the *)
(* 5-beam retrieval is elementwise along gate_index.                       *)
(***************************************************************************)
EXTENDS Integers, Sequences, FiniteSets, TLC

VARIABLES
    data,       \* the input of the calls: the merged DBS dataset handed to
                \* getWindProperties5Beam, the GetRestructuredData object
                \* handed to SixBeamMethod, the arguments of get_variance,
                \* or the dopplerObs handed to fftWindPropRet
    wp,         \* the getWindProperties5Beam object of the latest call
    sixBeam,    \* the SixBeamMethod object
    fftRet      \* the fftWindPropRet object

vars == <<data, wp, sixBeam, fftRet>>

----------------------------------------------------------------------------
(* Bounds of the model                                                     *)

NumScans == 2       \* DBS scans in a dataset: 1..NumScans
Period == 6         \* time from the start of a scan to the start of the next
NumProfiles == 4    \* time steps of the six-beam arrays
MaxFreq == 10       \* window sizes of get_variance: 1..MaxFreq
MaxAzm == 8         \* azimuths of a scan of fftWindPropRet: 2..MaxAzm

----------------------------------------------------------------------------
(* Floats as exact rationals                                               *)

NaN == <<0, 0>>

IsNaN(x) == x[2] = 0

Abs(i) == IF i < 0 THEN -i ELSE i

RECURSIVE GCD(_, _)
GCD(a, b) == IF b = 0 THEN a ELSE GCD(b, a % b)

\* n/d in lowest terms with a positive denominator (d # 0)
Q(n, d) ==
    LET g == GCD(Abs(n), Abs(d))
        s == IF d < 0 THEN -1 ELSE 1
    IN  <<s * (n \div g), s * (d \div g)>>

QInt(i) == <<i, 1>>

QNeg(a) == IF IsNaN(a) THEN NaN ELSE <<-a[1], a[2]>>

QAdd(a, b) ==
    IF IsNaN(a) \/ IsNaN(b) THEN NaN
    ELSE Q(a[1] * b[2] + b[1] * a[2], a[2] * b[2])

QSub(a, b) == QAdd(a, QNeg(b))

QMul(a, b) ==
    IF IsNaN(a) \/ IsNaN(b) THEN NaN
    ELSE Q(a[1] * b[1], a[2] * b[2])

\* a / b; the retrievals divide by 2cos(elevation) of a slanted beam and by
\* pivots of the geometry matrix, neither of which is zero where it is used
QDiv(a, b) ==
    IF IsNaN(a) \/ IsNaN(b) \/ b[1] = 0 THEN NaN
    ELSE Q(a[1] * b[2], a[2] * b[1])

QIsZero(a) == ~IsNaN(a) /\ a[1] = 0

QGe0(a) == ~IsNaN(a) /\ a[1] >= 0

----------------------------------------------------------------------------
(* Angles                                                                  *)

\* DataArray.round(1) of an angle given in hundredths of a degree, as tenths
\* (round half to even, as numpy does)
Round1(h) ==
    LET q == h \div 10
        r == h % 10
    IN  IF r < 5 THEN q
        ELSE IF r > 5 THEN q + 1
        ELSE IF q % 2 = 0 THEN q ELSE q + 1

\* 5cos and 5sin of the directions with rational cosine and sine (tenths of a
\* degree): the axes and the 3-4-5 directions
Cos5(a) ==
    CASE a = 0 -> 5     [] a = 369 -> 4   [] a = 531 -> 3   [] a = 900 -> 0
      [] a = 1269 -> -3 [] a = 1431 -> -4 [] a = 1800 -> -5 [] a = 2169 -> -4
      [] a = 2331 -> -3 [] a = 2700 -> 0  [] a = 3069 -> 3  [] a = 3231 -> 4

Sin5(a) ==
    CASE a = 0 -> 0     [] a = 369 -> 3   [] a = 531 -> 4   [] a = 900 -> 5
      [] a = 1269 -> 4  [] a = 1431 -> 3  [] a = 1800 -> 0  [] a = 2169 -> -3
      [] a = 2331 -> -4 [] a = 2700 -> -5 [] a = 3069 -> -4 [] a = 3231 -> -3

\* np.cos(np.deg2rad(a)) for the elevations of the DBS datasets
CosDeg(a) == IF a = 600 THEN Q(1, 2) ELSE Q(Cos5(a), 5)

----------------------------------------------------------------------------
(* DBS datasets (the input of getWindProperties5Beam)                      *)

Beams == <<"N", "E", "S", "W", "V">>      \* order of the beams in a scan
Slanted == {"N", "E", "S", "W"}

\* Scan geometries: raw azimuth of the north beam, and raw elevation of each
\* beam, in hundredths of a degree.
\*   1: nominal; 2: angles off by a few hundredths, north reported as 360;
\*   3: the south and west beams at another elevation than north and east
Geoms == {1, 2, 3}

RawAzimuth(g, b) ==
    CASE b = "N" -> IF g = 2 THEN 35998 ELSE 0
      [] b = "E" -> IF g = 2 THEN 9002 ELSE 9000
      [] b = "S" -> 18000
      [] b = "W" -> IF g = 2 THEN 26996 ELSE 27000
      [] b = "V" -> 0

RawElevation(g, b) ==
    CASE b = "V" -> IF g = 2 THEN 8996 ELSE 9000
      [] b \in {"N", "E"} -> IF g = 2 THEN 5998 ELSE 6000
      [] b \in {"S", "W"} -> IF g = 3 THEN 5313 ELSE IF g = 2 THEN 5998 ELSE 6000

BeamIndex(b) == CHOOSE i \in 1..5 : Beams[i] = b

\* Radial velocities of the first scan, by beam; each later scan adds 1.
\*   1: north = south, east # west;  2: north # south, east = west
VelPatterns == {1, 2}

Velocity(vel, b) ==
    CASE b = "N" -> 1
      [] b = "E" -> 2
      [] b = "S" -> vel
      [] b = "W" -> vel
      [] b = "V" -> 0

\* the sample of beam b in scan k (0-based); flag is the defect of the sample
\* ("ok" if none)
Sample(g, k, b, vel, flag) ==
    [t      |-> Period * k + BeamIndex(b) - 1,
     elev   |-> RawElevation(g, b),
     azm    |-> RawAzimuth(g, b),
     rws    |-> QInt(Velocity(vel, b) + k),
     status |-> IF flag = "badstatus" THEN 0 ELSE 1,
     cnr    |-> IF flag = "lowcnr" THEN -30 ELSE -10,
     smt    |-> Period * k + 2]

Positions(n) == (0..(n - 1)) \X Slanted

Kinds == {"absent", "badstatus", "lowcnr"}

\* the dataset of n scans in time order, with the defects of D (a function
\* from some positions to Kinds)
Dataset(n, g, vel, D) ==
    LET all == [i \in 1..(5 * n) |->
                  LET k == (i - 1) \div 5
                      b == Beams[((i - 1) % 5) + 1]
                      p == <<k, b>>
                  IN  Sample(g, k, b, vel,
                             IF p \in DOMAIN D THEN D[p] ELSE "ok")]
        Present(s) ==
            LET k == s.t \div Period
                b == Beams[(s.t % Period) + 1]
            IN  ~(<<k, b>> \in DOMAIN D /\ D[<<k, b>>] = "absent")
    IN  SelectSeq(all, Present)

\* the defects of a dataset of n scans: at most two samples, so that a beam
\* can be missing from one scan, from every scan of a two-scan dataset, or
\* flagged while another is missing
Defects(n) ==
    UNION { [P -> Kinds] :
              P \in { X \in SUBSET Positions(n) : Cardinality(X) <= 2 } }

Datasets ==
    UNION { { Dataset(n, g, vel, D) :
                g \in Geoms, vel \in VelPatterns, D \in Defects(n) } :
            n \in 1..NumScans }

\* the datasets on which calls are repeated: nominal geometry, at most one
\* flagged sample
FlaggedDatasets ==
    UNION { { Dataset(n, 1, vel, D) :
                vel \in VelPatterns,
                D \in UNION { [P -> {"badstatus", "lowcnr"}] :
                                P \in { X \in SUBSET Positions(n) :
                                          Cardinality(X) <= 1 } } } :
            n \in 1..NumScans }

----------------------------------------------------------------------------
(* xarray operations on a DataArray along 'time'                           *)

Times(a) == <<>> \o [i \in DOMAIN a |-> a[i].t]

TimeSet(a) == { a[i].t : i \in DOMAIN a }

\* the value of a at label t (labels are unique)
At(a, t) == a[CHOOSE i \in DOMAIN a : a[i].t = t].v

\* the slip a + b for a - b
MinusAdds(a, b) ==
    LET Shared(x) == x.t \in {b[j].t : j \in DOMAIN b}
        l == SelectSeq(a, Shared)
    IN  [i \in DOMAIN l |->
            [t |-> l[i].t,
             v |-> QAdd(l[i].v, b[CHOOSE j \in DOMAIN b : b[j].t = l[i].t].v)]]

\* a - b: the operands are aligned on the labels they share (inner join)
Minus(a, b) ==
    LET Shared(x) == x.t \in TimeSet(b)
        l == SelectSeq(a, Shared)
    IN  <<>> \o
        [i \in DOMAIN l |-> [t |-> l[i].t, v |-> QSub(l[i].v, At(b, l[i].t))]]

Negated(a) ==
    <<>> \o [i \in DOMAIN a |-> [t |-> a[i].t, v |-> QNeg(a[i].v)]]

\* the nearest indexer with the tolerance forgotten
NearestIdxAnyDistance(a, t, tol) ==
    LET Dist(i) == IF a[i].t < t THEN t - a[i].t ELSE a[i].t - t
        best == { i \in DOMAIN a : \A j \in DOMAIN a : Dist(i) <= Dist(j) }
    IN  IF best = {} THEN 0 ELSE CHOOSE i \in best : \A j \in best : j <= i

\* pandas' nearest indexer: the index into a of the label nearest to t, the
\* later label on a tie, 0 if there is none within the tolerance
NearestIdx(a, t, tol) ==
    LET pads  == { i \in DOMAIN a : a[i].t <= t }
        backs == { i \in DOMAIN a : a[i].t >= t }
        left  == IF pads = {} THEN 0
                 ELSE CHOOSE i \in pads : \A j \in pads : j <= i
        right == IF backs = {} THEN 0
                 ELSE CHOOSE i \in backs : \A j \in backs : i <= j
        idx   == IF left = 0 THEN right
                 ELSE IF right = 0 THEN left
                 ELSE IF t - a[left].t < a[right].t - t THEN left ELSE right
    IN  IF idx # 0 /\ Abs(a[idx].t - t) <= tol THEN idx ELSE 0

\* a.reindex(time=times, method='Nearest', tolerance=tol)
Reindex(a, times, tol) ==
    <<>> \o
    [i \in DOMAIN times |->
        LET j == NearestIdx(a, times[i], tol)
        IN  [t |-> times[i], v |-> IF j = 0 THEN NaN ELSE a[j].v]]

----------------------------------------------------------------------------
(* getWindProperties5Beam                                                  *)

\* data.radial_wind_speed.where(data.radial_wind_speed_status == 1)
StatusFiltered(d) ==
    [i \in DOMAIN d |-> [d[i] EXCEPT !.rws = IF d[i].status = 1 THEN @ ELSE NaN]]

\* data.radial_wind_speed.where(data.cnr >= cnr)
CnrFiltered(d, c) ==
    [i \in DOMAIN d |-> [d[i] EXCEPT !.rws = IF d[i].cnr >= c THEN @ ELSE NaN]]

\* the dataset as __init__ leaves it; cnr is <<>> for None, <<c>> for a value
Filtered(d, statusFilter, cnr) ==
    LET d1 == IF statusFilter THEN StatusFiltered(d) ELSE d
    IN  IF cnr # <<>> THEN CnrFiltered(d1, cnr[1]) ELSE d1

Elevation(s) == Round1(s.elev)

\* azimuth rounded, 360 taken as 0
Azimuth(s) ==
    LET a == Round1(s.azm) IN IF a = 3600 THEN 0 ELSE a

IsVertical(s) == Elevation(s) = 900

IsSlanted(s) == Elevation(s) # 900

\* radWindSpeedNon90 / (2 cos(elevetionNon90)), with the azimuth and the
\* scan mean time of each sample
CompWindSpeed(d) ==
    LET n == SelectSeq(d, IsSlanted)
    IN  <<>> \o
        [i \in DOMAIN n |->
            [t   |-> n[i].t,
             smt |-> n[i].smt,
             azm |-> Azimuth(n[i]),
             v   |-> QDiv(n[i].rws, QMul(QInt(2), CosDeg(Elevation(n[i]))))]]

\* compWindSpeed.where(azimuthNon90 == azm, drop=True)
AzimuthGroup(c, azm) ==
    LET Has(x) == x.azm = azm
        g == SelectSeq(c, Has)
    IN  <<>> \o [i \in DOMAIN g |-> [t |-> g[i].t, v |-> g[i].v]]

\* the same group relabelled with the scan mean times
AzimuthGroupMeanTime(c, azm) ==
    LET Has(x) == x.azm = azm
        g == SelectSeq(c, Has)
    IN  <<>> \o [i \in DOMAIN g |-> [t |-> g[i].smt, v |-> g[i].v]]

\* correctVertWindComp: the vertical beam's radial velocity
VerWindSpeed(d) ==
    LET n == SelectSeq(d, IsVertical)
    IN  [i \in DOMAIN n |-> [t |-> n[i].t, v |-> n[i].rws]]

\* the single-scan policy with the differences taken the other way round
CalcHorWindCompSingleDbsSwapped(d) ==
    LET c == CompWindSpeed(d)
        compVN == AzimuthGroupMeanTime(c, 0)
        compVS == AzimuthGroupMeanTime(c, 1800)
        compUE == AzimuthGroupMeanTime(c, 900)
        compUW == AzimuthGroupMeanTime(c, 2700)
    IN  <<Negated(Minus(compVS, compVN)), Negated(Minus(compUW, compUE))>>

\* calcHorWindComp_single_dbs: <<compV, compU>>
CalcHorWindCompSingleDbs(d) ==
    LET c == CompWindSpeed(d)
        compVN == AzimuthGroupMeanTime(c, 0)
        compVS == AzimuthGroupMeanTime(c, 1800)
        compUE == AzimuthGroupMeanTime(c, 900)
        compUW == AzimuthGroupMeanTime(c, 2700)
    IN  <<Negated(Minus(compVN, compVS)), Negated(Minus(compUE, compUW))>>

\* the continuous policy without the last reindex of compU onto compV.time
CalcHorWindCompContinuousUnaligned(d, tol) ==
    LET c == CompWindSpeed(d)
        compVN == AzimuthGroup(c, 0)
        compVS == Reindex(AzimuthGroup(c, 1800), Times(compVN), tol)
        compUE == AzimuthGroup(c, 900)
        compUW == Reindex(AzimuthGroup(c, 2700), Times(compUE), tol)
    IN  <<Negated(Minus(compVN, compVS)), Negated(Minus(compUE, compUW))>>

\* calcHorWindComp_continuous: <<compV, compU>>
CalcHorWindCompContinuous(d, tol) ==
    LET c == CompWindSpeed(d)
        compVN == AzimuthGroup(c, 0)
        compVS == Reindex(AzimuthGroup(c, 1800), Times(compVN), tol)
        compUE == AzimuthGroup(c, 900)
        compUW == Reindex(AzimuthGroup(c, 2700), Times(compUE), tol)
        compV  == Negated(Minus(compVN, compVS))
        compU  == Negated(Minus(compUE, compUW))
    IN  <<compV, Reindex(compU, Times(compV), tol)>>

\* calcHorWindSpeed: sqrt(compV**2 + compU**2), held as the radicand
CalcHorWindSpeed(compV, compU) ==
    LET Shared(x) == x.t \in TimeSet(compU)
        l == SelectSeq(compV, Shared)
    IN  [i \in DOMAIN l |->
            [t |-> l[i].t,
             v |-> QAdd(QMul(l[i].v, l[i].v),
                        QMul(At(compU, l[i].t), At(compU, l[i].t)))]]

Sign(i) == IF i > 0 THEN 1 ELSE IF i < 0 THEN -1 ELSE 0

\* np.rad2deg(np.arctan2(y, x)) to the quadrant: exact on the axes, and the
\* bisector of the quadrant for a direction inside it
Atan2Deg(y, x) ==
    LET sy == Sign(y[1])
        sx == Sign(x[1])
    IN  IF IsNaN(y) \/ IsNaN(x) THEN NaN
        ELSE QInt(CASE sy = 0 /\ sx >= 0 -> 0
                    [] sy = 0 /\ sx < 0  -> 180
                    [] sy > 0 -> 90 - 45 * sx
                    [] sy < 0 -> 45 * sx - 90)

\* calcHorWindDir: 180 + atan2(-compU, -compV)
CalcHorWindDir(compV, compU) ==
    LET Shared(x) == x.t \in TimeSet(compV)
        l == SelectSeq(compU, Shared)
    IN  [i \in DOMAIN l |->
            [t |-> l[i].t,
             v |-> QAdd(QInt(180),
                        Atan2Deg(QNeg(l[i].v), QNeg(At(compV, l[i].t))))]]

NoObject ==
    [made |-> FALSE, raised |-> "none", method |-> "", tolerance |-> 0,
     fields |-> {}, trace |-> <<>>,
     verWindSpeed |-> <<>>, compV |-> <<>>, compU |-> <<>>,
     horWindSpeed |-> <<>>, horWindDir |-> <<>>]

\* the dispatch with the single-scan policy as the default
HorWindCompPolicyDefaulting(method) ==
    IF method = "continuous" THEN <<"calcHorWindComp_continuous">>
    ELSE <<"calcHorWindComp_single_dbs">>

\* the policies __init__ calls for a method: two independent tests of
\* equality, none for any other value
HorWindCompPolicy(method) ==
    (IF method = "continuous" THEN <<"calcHorWindComp_continuous">> ELSE <<>>)
    \o (IF method = "single_dbs" THEN <<"calcHorWindComp_single_dbs">>
        ELSE <<>>)

\* getWindProperties5Beam.__init__ on the (already filtered) dataset d
WindProperties5Beam(d, method, tol) ==
    LET base == [NoObject EXCEPT !.made = TRUE, !.method = method,
                                 !.tolerance = tol]
        ver  == VerWindSpeed(d)
        hor  == IF method = "continuous" THEN CalcHorWindCompContinuous(d, tol)
                ELSE CalcHorWindCompSingleDbs(d)
        pol  == HorWindCompPolicy(method)
    IN  IF ver = <<>>
        THEN \* rangeVal90.values[0] of an empty array
             [base EXCEPT !.raised = "IndexError",
                          !.trace = <<"correctVertWindComp">>]
        ELSE IF pol = <<>>
        THEN \* self.compV is read before any policy has set it
             [base EXCEPT !.raised = "AttributeError",
                          !.fields = {"verWindSpeed"},
                          !.verWindSpeed = ver,
                          !.trace = <<"correctVertWindComp", "calcHorWindSpeed">>]
        ELSE [base EXCEPT !.fields = {"verWindSpeed", "compV", "compU",
                                      "horWindSpeed", "horWindDir"},
                          !.verWindSpeed = ver,
                          !.compV = hor[1],
                          !.compU = hor[2],
                          !.horWindSpeed = CalcHorWindSpeed(hor[1], hor[2]),
                          !.horWindDir = CalcHorWindDir(hor[1], hor[2]),
                          !.trace = <<"correctVertWindComp">> \o pol \o
                                    <<"calcHorWindSpeed", "calcHorWindDir">>]

\* the two recognised methods, and two values that are neither
Methods == {"single_dbs", "continuous", "Continuous", "fft"}

Tolerances == {1, 2, 8}

----------------------------------------------------------------------------
(* SixBeamMethod (wind_prop_retrieval_6_beam.py)                           *)
(*                                                                         *)
(* Its input is a GetRestructuredData object, held as a record             *)
(*   [restructured, elv, azm, data_transf, data_transf_90]                 *)
(* where restructured is what isinstance(data, GetRestructuredData) gives, *)
(* azm the five slanted azimuths, and each array a sequence of [t, v] with *)
(* v the tuple of the values along the remaining dimension (the five       *)
(* azimuths of data_transf, the one column of data_transf_90).  One range  *)
(* gate is modelled.  A matrix is a tuple of rows.                         *)

Cos(a) == Q(Cos5(a), 5)
Sin(a) == Q(Sin5(a), 5)

Row6(f(_)) == <<f(1), f(2), f(3), f(4), f(5), f(6)>>

\* m_matrix_line of get_m_matrix for elevation phi and azimuth theta
MMatrixLine(phi, theta) ==
    LET cp  == Cos(phi)
        sp  == Sin(phi)
        ct  == Cos(theta)
        st  == Sin(theta)
        ci1 == QMul(QMul(cp, cp), QMul(st, st))
        ci2 == QMul(QMul(cp, cp), QMul(ct, ct))
        ci3 == QMul(sp, sp)
        ci4 == QMul(QMul(QMul(cp, cp), ct), st)
        ci5 == QMul(QMul(cp, sp), st)
        ci6 == QMul(QMul(cp, sp), ct)
    IN  <<ci1, ci2, ci3, QMul(ci4, QInt(2)), QMul(ci5, QInt(2)),
          QMul(ci6, QInt(2))>>

\* get_m_matrix with the vertical beam left at the slanted elevation
MMatrixWithoutVertical(elv, azm) ==
    LET thetas == azm \o <<0>>
    IN  Row6(LAMBDA i : MMatrixLine(elv, thetas[i]))

\* get_m_matrix: five rows at the slanted elevation, then the vertical beam
\* (elevation 90, azimuth 0).  cos(90 deg) is taken as exactly 0; the float
\* np.cos(np.deg2rad(90)) is 6.1e-17.
MMatrix(elv, azm) ==
    LET phis   == [i \in 1..5 |-> elv] \o <<900>>
        thetas == azm \o <<0>>
    IN  Row6(LAMBDA i : MMatrixLine(phis[i], thetas[i]))

Identity ==
    Row6(LAMBDA i : Row6(LAMBDA j : IF i = j THEN QInt(1) ELSE QInt(0)))

\* Gauss-Jordan elimination of a from column c on, the same row operations
\* applied to b: <<TRUE, b>> when every column has a pivot, <<FALSE, b>>
\* when a column has none (a is singular)
RECURSIVE GaussJordan(_, _, _)
GaussJordan(a, b, c) ==
    IF c > 6 THEN <<TRUE, b>>
    ELSE
      LET rows == {r \in c..6 : ~QIsZero(a[r][c])}
      IN  IF rows = {} THEN <<FALSE, b>>
          ELSE
            LET p   == CHOOSE r \in rows : \A q \in rows : r <= q
                a1  == Row6(LAMBDA r : IF r = c THEN a[p]
                                       ELSE IF r = p THEN a[c] ELSE a[r])
                b1  == Row6(LAMBDA r : IF r = c THEN b[p]
                                       ELSE IF r = p THEN b[c] ELSE b[r])
                piv == a1[c][c]
                Reduced(m, r) ==
                    IF r = c
                    THEN Row6(LAMBDA j : QDiv(m[c][j], piv))
                    ELSE Row6(LAMBDA j :
                             QSub(m[r][j],
                                  QMul(a1[r][c], QDiv(m[c][j], piv))))
                a2  == Row6(LAMBDA r : Reduced(a1, r))
                b2  == Row6(LAMBDA r : Reduced(b1, r))
            IN  GaussJordan(a2, b2, c + 1)

\* np.linalg.inv(m): <<TRUE, inverse>>, or <<FALSE, _>> where it raises
\* LinAlgError (singular matrix).  The inverse is exact.
LinalgInv(m) == GaussJordan(m, Identity, 1)

RECURSIVE QSum(_)
QSum(s) == IF s = <<>> THEN QInt(0) ELSE QAdd(Head(s), QSum(Tail(s)))

\* np.matmul of a 6x6 matrix and a column of six values
MatVec(m, s) ==
    Row6(LAMBDA r : QSum(Row6(LAMBDA j : QMul(m[r][j], s[j]))))

\* data.interp(time=times, method='nearest'): the value at the nearest time
\* of a (the earlier one at equal distance); NaN outside the times of a
InterpNearest(a, times) ==
    LET n     == Len(a)
        D(i, t) == Abs(a[i].t - t)
        Idx(t) == CHOOSE i \in 1..n :
                      \A j \in 1..n : D(i, t) < D(j, t)
                                      \/ (D(i, t) = D(j, t) /\ i <= j)
    IN  <<>> \o
        [k \in 1..Len(times) |->
            [t |-> times[k],
             v |-> IF times[k] < a[1].t \/ times[k] > a[n].t
                   THEN [c \in 1..Len(a[1].v) |-> NaN]
                   ELSE a[Idx(times[k])].v]]

\* -1 * data_transf_90
TimesMinusOne(a) ==
    <<>> \o
    [i \in 1..Len(a) |->
        [t |-> a[i].t, v |-> [c \in 1..Len(a[i].v) |-> QNeg(a[i].v[c])]]]

\* int(freq * 0.3)
MinPeriods(freq) == (3 * freq) \div 10

\* variance of a tuple of numbers with the sign of the two terms exchanged
VarSwapped(xs) ==
    LET n    == Len(xs)
        mean == QDiv(QSum(xs), QInt(n))
        sq   == [i \in 1..n |-> QMul(xs[i], xs[i])]
    IN  QSub(QMul(mean, mean), QDiv(QSum(sq), QInt(n)))

\* .var() of the samples of one window (ddof = 0)
Var(xs) ==
    LET n    == Len(xs)
        mean == QDiv(QSum(xs), QInt(n))
        dev  == [i \in 1..n |-> QMul(QSub(xs[i], mean), QSub(xs[i], mean))]
    IN  QDiv(QSum(dev), QInt(n))

\* the window of rolling(time=freq, center=True) at position i of n
Window(n, i, freq) ==
    {j \in 1..n : i - (freq \div 2) <= j /\ j <= i + ((freq - 1) \div 2)}

\* the samples of column c of a in the window at i that are present
WindowSamples(a, c, i, freq) ==
    LET w  == Window(Len(a), i, freq)
        In(j) == j \in w /\ ~IsNaN(a[j].v[c])
        RECURSIVE From(_)
        From(j) == IF j > Len(a) THEN <<>>
                   ELSE IF In(j) THEN <<a[j].v[c]>> \o From(j + 1)
                   ELSE From(j + 1)
    IN  From(1)

\* a.rolling(time=freq, center=True, min_periods=minp).var() for minp > 0
RollingVar(a, freq, minp) ==
    <<>> \o
    [i \in 1..Len(a) |->
        [t |-> a[i].t,
         v |-> <<>> \o
               [c \in 1..Len(a[i].v) |->
                   LET xs == WindowSamples(a, c, i, freq)
                   IN  IF Len(xs) >= minp THEN Var(xs) ELSE NaN]]]

NoSixBeam ==
    [made |-> FALSE, raised |-> "none", fields |-> {}, trace |-> <<>>,
     elv |-> 0, azm |-> <<>>, m_matrix |-> <<>>, m_matrix_inv |-> <<>>,
     radial_variances |-> <<>>, s_matrix |-> <<>>, sigma_matrix |-> <<>>,
     var_comp_ds |-> <<>>]

\* a method called on self only while no earlier one has raised
Then(self, Method(_)) == IF self.raised # "none" THEN self ELSE Method(self)

Called(self, name) == [self EXCEPT !.trace = @ \o <<name>>]

get_m_matrix(self) ==
    [Called(self, "get_m_matrix") EXCEPT
        !.m_matrix = MMatrix(self.elv, self.azm),
        !.fields = @ \cup {"m_matrix"}]

get_m_matrix_inv(self) ==
    LET inv == LinalgInv(self.m_matrix)
        s   == Called(self, "get_m_matrix_inv")
    IN  IF inv[1]
        THEN [s EXCEPT !.m_matrix_inv = inv[2],
                       !.fields = @ \cup {"m_matrix_inv"}]
        ELSE [s EXCEPT !.raised = "LinAlgError"]

\* get_variance(data, freq, name); rolling() raises ValueError for a
\* min_periods that is not greater than zero
get_variance(self, a, freq, name) ==
    LET s == Called(self, "get_variance")
    IN  IF MinPeriods(freq) <= 0
        THEN [s EXCEPT !.raised = "ValueError"]
        ELSE [s EXCEPT !.radial_variances =
                          (name :> RollingVar(a, freq, MinPeriods(freq))) @@ @]

calc_variances(self, d, freq, freq90) ==
    LET interp_data_transf ==
            InterpNearest(d.data_transf, Times(d.data_transf_90))
        s1 == get_variance(Called(self, "calc_variances"),
                           interp_data_transf, freq, "rVariance")
    IN  Then(s1, LAMBDA s : get_variance(s, TimesMinusOne(d.data_transf_90),
                                         freq90, "rVariance90"))

\* np.dstack of the five slanted variances and the vertical one
get_s_matrix(self) ==
    LET rv   == self.radial_variances["rVariance"]
        rv90 == self.radial_variances["rVariance90"]
    IN  [Called(self, "get_s_matrix") EXCEPT
            !.s_matrix = <<>> \o [i \in 1..Len(rv) |-> rv[i].v \o rv90[i].v],
            !.fields = @ \cup {"s_matrix"}]

get_sigma(self) ==
    [Called(self, "get_sigma") EXCEPT
        !.sigma_matrix = [i \in 1..Len(self.s_matrix) |->
                             MatVec(self.m_matrix_inv, self.s_matrix[i])],
        !.fields = @ \cup {"sigma_matrix"}]

var_comp_name == <<"u", "v", "w", "uv", "uw", "vw">>

get_variance_ds(self) ==
    LET time == Times(self.radial_variances["rVariance90"])
    IN  [Called(self, "get_variance_ds") EXCEPT
            !.var_comp_ds =
                [i \in 1..6 |->
                    [name |-> var_comp_name[i],
                     values |-> [k \in 1..Len(time) |->
                                    [t |-> time[k],
                                     v |-> self.sigma_matrix[k][i]]]]],
            !.fields = @ \cup {"var_comp_ds"}]

\* SixBeamMethod.__init__ after the check of the type of data
SixBeamRetrieval(d, freq, freq90) ==
    LET s0 == [NoSixBeam EXCEPT !.made = TRUE, !.elv = d.elv, !.azm = d.azm,
                                !.fields = {"elv", "azm"}]
        s1 == get_m_matrix(s0)
        s2 == Then(s1, get_m_matrix_inv)
        s3 == Then(s2, LAMBDA s : [s EXCEPT
                                      !.fields = @ \cup {"radial_variances"}])
        s4 == Then(s3, LAMBDA s : calc_variances(s, d, freq, freq90))
        s5 == Then(s4, get_s_matrix)
        s6 == Then(s5, get_sigma)
    IN  Then(s6, get_variance_ds)

\* SixBeamMethod(data, freq, freq90) without the check of the type of data
SixBeamMethodUnchecked(d, freq, freq90) == SixBeamRetrieval(d, freq, freq90)

\* SixBeamMethod(data, freq, freq90)
SixBeamMethod(d, freq, freq90) ==
    IF ~d.restructured
    THEN [NoSixBeam EXCEPT !.made = TRUE, !.raised = "TypeError"]
    ELSE SixBeamRetrieval(d, freq, freq90)

----------------------------------------------------------------------------
(* fftWindPropRet (windPropRetrieval.py)                                   *)
(*                                                                         *)
(* dopplerObs is one scan of n equally spaced azimuths 0, 360/n, ... at    *)
(* elevation elv, held by the harmonics of its radial velocity,            *)
(*   x(azm) = sum over the records [h, a, b] of                            *)
(*               a cos(h azm) + b sin(h azm)                               *)
(* (h = 0 is the offset), so that its discrete Fourier transform is exact. *)
(* A complex number is a pair <<re, im>> of rationals.                     *)

Mod(a, n) == ((a % n) + n) % n

\* the coefficient sum_j x(azm_j) exp(-2 pi i k j / n) of the transform
Coefficient(obs, k) ==
    LET n  == obs.n
        hs == obs.harmonics
        Same(h) == IF Mod(k, n) = Mod(h, n) THEN 1 ELSE 0
        Opp(h)  == IF Mod(k, n) = Mod(-h, n) THEN 1 ELSE 0
        re == [i \in 1..Len(hs) |->
                  Q(n * hs[i].a * (Same(hs[i].h) + Opp(hs[i].h)), 2)]
        im == [i \in 1..Len(hs) |->
                  Q(n * hs[i].b * (Opp(hs[i].h) - Same(hs[i].h)), 2)]
    IN  <<QSum(re), QSum(im)>>

\* xrft.fft(dopplerObs, dim=['azm']): the bins in ascending order of
\* frequency (shift=True), freq_azm in cycles per degree
XrftFft(obs) ==
    [i \in 1..obs.n |->
        [freq_azm |-> Q(i - 1 - (obs.n \div 2), 360),
         v |-> Coefficient(obs, i - 1 - (obs.n \div 2))]]

ISqrt(i) == CHOOSE r \in 0..i : r * r = i

\* np.abs of a complex number (of the scans modelled, a rational)
ComplexAbs(z) ==
    LET sq == QAdd(QMul(z[1], z[1]), QMul(z[2], z[2]))
    IN  Q(ISqrt(sq[1]), ISqrt(sq[2]))

TableAngles ==
    {0, 369, 531, 900, 1269, 1431, 1800, 2169, 2331, 2700, 3069, 3231}

\* np.rad2deg(np.arctan2(y, x)) in tenths of a degree, in (-1800, 1800]
Arctan2(y, x) ==
    LET m == ComplexAbs(<<x, y>>)
        a == CHOOSE t \in TableAngles :
                 Cos(t) = QDiv(x, m) /\ Sin(t) = QDiv(y, m)
    IN  IF QIsZero(m) THEN 0 ELSE IF a > 1800 THEN a - 3600 ELSE a

NoFft ==
    [made |-> FALSE, dopplerObs |-> <<>>, compAmp |-> <<>>, phase |-> 0,
     radWindSpeed |-> NaN, horWindSpeed |-> NaN, windDir |-> 0,
     compU |-> NaN, compV |-> NaN]

getCompAmp(self) ==
    LET bins == XrftFft(self.dopplerObs)
    IN  [self EXCEPT !.compAmp = bins[Len(bins) - 1]]

getPhase(self) ==
    [self EXCEPT !.phase = -Arctan2(self.compAmp.v[2], self.compAmp.v[1])]

getRadWindSpeed(self) ==
    [self EXCEPT !.radWindSpeed =
        QDiv(QMul(QInt(2), ComplexAbs(self.compAmp.v)),
             QInt(self.dopplerObs.n))]

getHorWindSpeed(self) ==
    [self EXCEPT !.horWindSpeed =
        QDiv(self.radWindSpeed, CosDeg(self.dopplerObs.elv))]

getWindDir(self) == [self EXCEPT !.windDir = self.phase + 1800]

getAzmWind(self, azm) ==
    QDiv(QMul(self.radWindSpeed, Sin(Mod(azm + self.phase + 1800, 3600))),
         CosDeg(self.dopplerObs.elv))

getWindConpU(self) == [self EXCEPT !.compU = getAzmWind(self, 0)]

getWindConpV(self) == [self EXCEPT !.compV = getAzmWind(self, 900)]

\* fftWindPropRet(dopplerObs)
FftWindPropRet(dopplerObs) ==
    getWindConpV(getWindConpU(getWindDir(getHorWindSpeed(getRadWindSpeed(
        getPhase(getCompAmp([NoFft EXCEPT !.made = TRUE,
                                          !.dopplerObs = dopplerObs])))))))

----------------------------------------------------------------------------
(* Calls of getWindProperties5Beam                                         *)

\* a call getWindProperties5Beam(data, statusFilter, cnr, method, tolerance):
\* the filters are written back into the caller's dataset
Retrieve(statusFilter, cnr, method, tol) ==
    /\ data' = Filtered(data, statusFilter, cnr)
    /\ wp' = WindProperties5Beam(data', method, tol)
    /\ UNCHANGED <<sixBeam, fftRet>>

\* the calls made: any filter arguments, any method, and for the continuous
\* policy any tolerance (the other methods never read it; default '8s')
Call ==
    \E statusFilter \in BOOLEAN, cnr \in {<<>>, <<-20>>},
       method \in Methods, tol \in Tolerances :
        /\ method # "continuous" => tol = 8
        /\ Retrieve(statusFilter, cnr, method, tol)

\* one retrieval of a dataset
InitDbs ==
    /\ data \in Datasets
    /\ wp = NoObject
    /\ sixBeam = NoSixBeam
    /\ fftRet = NoFft

NextDbs == ~wp.made /\ Call

SpecDbs == InitDbs /\ [][NextDbs]_vars

\* any number of retrievals of the same dataset
InitCalls ==
    /\ data \in FlaggedDatasets
    /\ wp = NoObject
    /\ sixBeam = NoSixBeam
    /\ fftRet = NoFft

NextCalls == Call

SpecCalls == InitCalls /\ [][NextCalls]_vars

----------------------------------------------------------------------------
(* Reading a retrieval against the dataset it was made from.  After a call *)
(* data is the dataset as the constructor read it (filters applied).       *)

Retrieved == wp.made /\ wp.raised = "none"

SlantedSamples == { data[i] : i \in { j \in DOMAIN data : IsSlanted(data[j]) } }

Samples(azm) == { s \in SlantedSamples : Azimuth(s) = azm }

Dist(x, t) == IF x.t < t THEN t - x.t ELSE x.t - t

\* the sample of S nearest in time to t and within the tolerance (the later
\* one if two are equally near): a set of at most one sample
NearestOf(S, t, tol) ==
    { x \in S : /\ Dist(x, t) <= tol
                /\ \A y \in S \ {x} :
                      \/ Dist(y, t) > Dist(x, t)
                      \/ Dist(y, t) = Dist(x, t) /\ y.t < x.t }

\* the along-axis contribution of a sample
Contribution(s) == QDiv(s.rws, QMul(QInt(2), CosDeg(Elevation(s))))

\* the <<north, south>> and <<east, west>> samples whose difference makes
\* the output at label t
VPairs(t) ==
    IF wp.method = "single_dbs"
    THEN { p \in Samples(0) \X Samples(1800) : p[1].smt = t /\ p[2].smt = t }
    ELSE { p \in Samples(0) \X Samples(1800) :
             p[1].t = t /\ p[2] \in NearestOf(Samples(1800), t, wp.tolerance) }

UPairs(t) ==
    IF wp.method = "single_dbs"
    THEN { p \in Samples(900) \X Samples(2700) : p[1].smt = t /\ p[2].smt = t }
    ELSE { p \in Samples(900) \X Samples(2700) :
             /\ p[1] \in NearestOf(Samples(900), t, wp.tolerance)
             /\ p[2] \in NearestOf(Samples(2700), p[1].t, wp.tolerance) }

EqualVelocity(p) == p[1].rws = p[2].rws /\ ~IsNaN(p[1].rws)

SameElevation(p) == Elevation(p[1]) = Elevation(p[2])

----------------------------------------------------------------------------
(* C1: opposing-beam cancellation                                          *)

\* C1 as claimed: in both policies, wherever the east and west radial
\* velocities paired at an output time are equal compU is exactly zero, and
\* wherever the paired north and south velocities are equal compV is.
C1_EqualVelocitiesCancel ==
    Retrieved =>
        /\ \A i \in DOMAIN wp.compU : \A p \in UPairs(wp.compU[i].t) :
              EqualVelocity(p) => QIsZero(wp.compU[i].v)
        /\ \A i \in DOMAIN wp.compV : \A p \in VPairs(wp.compV[i].t) :
              EqualVelocity(p) => QIsZero(wp.compV[i].v)

\* C1 amended: in both policies, wherever the paired east and west samples
\* have equal radial velocities and the same (rounded) elevation compU is
\* exactly zero; likewise compV for the paired north and south samples.
C1_EqualBeamsCancel ==
    Retrieved =>
        /\ \A i \in DOMAIN wp.compU : \A p \in UPairs(wp.compU[i].t) :
              EqualVelocity(p) /\ SameElevation(p) => QIsZero(wp.compU[i].v)
        /\ \A i \in DOMAIN wp.compV : \A p \in VPairs(wp.compV[i].t) :
              EqualVelocity(p) /\ SameElevation(p) => QIsZero(wp.compV[i].v)

\* a continuous retrieval in which an east and a west sample of equal
\* velocity and elevation are paired and compU is zero there, while compV
\* (north # south) is not
C1_Witness ==
    /\ Retrieved /\ wp.method = "continuous"
    /\ \E i \in DOMAIN wp.compU : \E p \in UPairs(wp.compU[i].t) :
          /\ EqualVelocity(p) /\ SameElevation(p)
          /\ QIsZero(wp.compU[i].v)
          /\ ~IsNaN(wp.compV[i].v) /\ ~QIsZero(wp.compV[i].v)

----------------------------------------------------------------------------
(* C2: the two policies on a single scan                                   *)

Values(a) == [i \in DOMAIN a |-> a[i].v]

\* one scan: one sample of each of the four slanted beams and a vertical one
SingleScan ==
    /\ \A azm \in {0, 900, 1800, 2700} : Cardinality(Samples(azm)) = 1
    /\ Cardinality(SlantedSamples) = 4
    /\ Len(data) = 5

\* the tolerance reaches from any slanted sample to any other
WideEnough(tol) == \A x \in SlantedSamples, y \in SlantedSamples : Dist(x, y.t) <= tol

\* C2: on a single DBS scan, with a tolerance that matches every timestamp,
\* the single_dbs and the continuous policy give the same values of compU
\* and of compV (the time label is the scan mean time in the one, the north
\* sample's time in the other).
C2_PoliciesAgreeOnOneScan ==
    Retrieved /\ SingleScan =>
        /\ wp.method = "continuous" /\ WideEnough(wp.tolerance) =>
              /\ Values(wp.compV) = Values(CalcHorWindCompSingleDbs(data)[1])
              /\ Values(wp.compU) = Values(CalcHorWindCompSingleDbs(data)[2])
        /\ wp.method = "single_dbs" =>
              \A tol \in Tolerances : WideEnough(tol) =>
                  /\ Values(wp.compV) = Values(CalcHorWindCompContinuous(data, tol)[1])
                  /\ Values(wp.compU) = Values(CalcHorWindCompContinuous(data, tol)[2])

\* a continuous retrieval of a single scan with a wide tolerance whose compU
\* and compV are one defined, non-zero value each
C2_Witness ==
    /\ Retrieved /\ SingleScan
    /\ wp.method = "continuous" /\ WideEnough(wp.tolerance)
    /\ Len(wp.compU) = 1 /\ Len(wp.compV) = 1
    /\ ~IsNaN(wp.compU[1].v) /\ ~IsNaN(wp.compV[1].v)
    /\ ~QIsZero(wp.compU[1].v) \/ ~QIsZero(wp.compV[1].v)

----------------------------------------------------------------------------
(* C3: missing beams                                                       *)

\* the time windows of the dataset: its scans, named by their mean time
Windows == { data[i].smt : i \in DOMAIN data }

BeamOf(m, azm) == { s \in Samples(azm) : s.smt = m }

\* the beam has an unmasked sample in the window
Valid(m, azm) == \E s \in BeamOf(m, azm) : ~IsNaN(s.rws)

\* the output label of a window: its mean time, or its north sample's time
Labels(m) ==
    IF wp.method = "single_dbs" THEN {m} ELSE { s.t : s \in BeamOf(m, 0) }

\* the array has no value at the window: no label, or NaN
Missing(a, m) == \A t \in Labels(m) : t \notin TimeSet(a) \/ IsNaN(At(a, t))

Defined(a, m) == \E t \in Labels(m) : t \in TimeSet(a) /\ ~IsNaN(At(a, t))

VMissing(m) ==
    Missing(wp.compV, m) /\ Missing(wp.horWindSpeed, m) /\ Missing(wp.horWindDir, m)

UMissing(m) ==
    Missing(wp.compU, m) /\ Missing(wp.horWindSpeed, m) /\ Missing(wp.horWindDir, m)

AllValid(m) == \A azm \in {0, 900, 1800, 2700} : Valid(m, azm)

\* C3 as claimed: with a slanted beam absent or masked in a window, or a whole
\* azimuth group empty, the constructor completes; the affected component and
\* the speed and direction are missing at that window; every window with all
\* four slanted beams keeps defined components.
C3_MissingBeamGivesMissingValue ==
    wp.made /\ wp.method \in {"single_dbs", "continuous"} =>
        /\ wp.raised = "none"
        /\ \A m \in Windows :
              /\ ~Valid(m, 0) \/ ~Valid(m, 1800) => VMissing(m)
              /\ ~Valid(m, 900) \/ ~Valid(m, 2700) => UMissing(m)
              /\ AllValid(m) => Defined(wp.compV, m) /\ Defined(wp.compU, m)

\* some sample of the azimuth is paired with time t and is unmasked
Matched(azm, t) ==
    \E s \in NearestOf(Samples(azm), t, wp.tolerance) : ~IsNaN(s.rws)

\* C3 amended: the constructor completes, and speed and direction are
\* missing wherever a component is.  Under single_dbs the claim holds as
\* stated.  Under continuous, at the time t of a window's north sample compV
\* is defined exactly when that sample is unmasked and the south sample
\* nearest to t within the tolerance exists and is unmasked, and compU
\* exactly when the east sample nearest to t within the tolerance and the
\* west sample nearest to that east sample within the tolerance exist and
\* are unmasked, whichever scan they come from; a window without a north
\* sample has no value at all.
C3_MissingBeamHandled ==
    wp.made /\ wp.method \in {"single_dbs", "continuous"} =>
        /\ wp.raised = "none"
        /\ \A m \in Windows :
              /\ Missing(wp.compV, m) \/ Missing(wp.compU, m) =>
                    Missing(wp.horWindSpeed, m) /\ Missing(wp.horWindDir, m)
              /\ wp.method = "single_dbs" =>
                    /\ ~Valid(m, 0) \/ ~Valid(m, 1800) => VMissing(m)
                    /\ ~Valid(m, 900) \/ ~Valid(m, 2700) => UMissing(m)
                    /\ AllValid(m) =>
                          /\ Defined(wp.compV, m) /\ Defined(wp.compU, m)
                          /\ Defined(wp.horWindSpeed, m)
                          /\ Defined(wp.horWindDir, m)
              /\ wp.method = "continuous" =>
                    \A n \in BeamOf(m, 0) :
                        /\ Defined(wp.compV, m) <=>
                              ~IsNaN(n.rws) /\ Matched(1800, n.t)
                        /\ Defined(wp.compU, m) <=>
                              \E e \in NearestOf(Samples(900), n.t, wp.tolerance) :
                                  ~IsNaN(e.rws) /\ Matched(2700, e.t)
              /\ wp.method = "continuous" /\ BeamOf(m, 0) = {} =>
                    VMissing(m) /\ UMissing(m)

\* a continuous retrieval of two scans whose one scan has no south sample:
\* compV is defined at that scan all the same, from the other scan's south
\* sample, and defined at the other scan
C3_Witness ==
    /\ Retrieved /\ wp.method = "continuous"
    /\ \E m \in Windows, m2 \in Windows :
          /\ m # m2
          /\ BeamOf(m, 1800) = {} /\ Valid(m, 0) /\ Valid(m2, 1800)
          /\ Defined(wp.compV, m) /\ Defined(wp.compV, m2)

----------------------------------------------------------------------------
(* C4: the caller's dataset                                                *)

\* C4 as claimed: a retrieval call leaves the caller's dataset as it was, so
\* that no call changes what a later call reads.
C4_InputUnchanged == [][data' = data]_vars

----------------------------------------------------------------------------
(* C10: time alignment of the continuous policy                            *)

Increasing(a) == \A i \in DOMAIN a, j \in DOMAIN a : i < j => a[i].t < a[j].t

\* -(a - b) of the contributions of two samples
Opposed(a, b) == QNeg(QSub(Contribution(a), Contribution(b)))

\* what the pairing rule gives at the north time t: the difference of the
\* north sample and the south sample nearest within the tolerance, ...
PairedV(n) ==
    LET S == NearestOf(Samples(1800), n.t, wp.tolerance)
    IN  IF S = {} THEN NaN ELSE Opposed(n, CHOOSE s \in S : TRUE)

\* ... and the difference of the east sample nearest to t within the
\* tolerance and the west sample nearest to that east sample
PairedU(n) ==
    LET E == NearestOf(Samples(900), n.t, wp.tolerance)
        e == CHOOSE x \in E : TRUE
        W == IF E = {} THEN {} ELSE NearestOf(Samples(2700), e.t, wp.tolerance)
    IN  IF W = {} THEN NaN ELSE Opposed(e, CHOOSE w \in W : TRUE)

ValuesFollowPairing ==
    \A n \in Samples(0) :
        n.t \in TimeSet(wp.compV) =>
            /\ At(wp.compV, n.t) = PairedV(n)
            /\ n.t \in TimeSet(wp.compU) => At(wp.compU, n.t) = PairedU(n)

\* C10 as claimed: under continuous, values come from nearest-within-
\* tolerance pairs; a north sample without a south match within the
\* tolerance contributes no output time step; compU and compV share one
\* time axis.
C10_UnmatchedSamplesDropped ==
    Retrieved /\ wp.method = "continuous" =>
        /\ ValuesFollowPairing
        /\ \A n \in Samples(0) :
              NearestOf(Samples(1800), n.t, wp.tolerance) = {} =>
                  n.t \notin TimeSet(wp.compV)
        /\ Times(wp.compU) = Times(wp.compV)

\* C10 amended: under continuous, values come from nearest-within-tolerance
\* pairs; every north sample keeps its time step, and a north (east) sample
\* without a south (west) match within the tolerance gives a missing value
\* at that step instead of being dropped; compU is aligned to compV's time
\* axis by the same rule, so both share the north samples' time axis.
C10_UnmatchedSamplesMissing ==
    Retrieved /\ wp.method = "continuous" =>
        /\ ValuesFollowPairing
        /\ TimeSet(wp.compV) = { n.t : n \in Samples(0) }
        /\ Len(wp.compV) = Cardinality(Samples(0))
        /\ Increasing(wp.compV)
        /\ \A n \in Samples(0) :
              NearestOf(Samples(1800), n.t, wp.tolerance) = {} =>
                  n.t \in TimeSet(wp.compV) /\ IsNaN(At(wp.compV, n.t))
        /\ Times(wp.compU) = Times(wp.compV)

\* a continuous retrieval of two scans: one north sample has no south sample
\* within the tolerance and keeps its step with a missing compV, the other
\* is matched; an east sample is matched too, so that compU has a value
C10_Witness ==
    /\ Retrieved /\ wp.method = "continuous"
    /\ \E n \in Samples(0), n2 \in Samples(0) :
          /\ NearestOf(Samples(1800), n.t, wp.tolerance) = {}
          /\ ~IsNaN(n.rws)
          /\ n.t \in TimeSet(wp.compV) /\ IsNaN(At(wp.compV, n.t))
          /\ ~IsNaN(At(wp.compV, n2.t)) /\ ~IsNaN(At(wp.compU, n2.t))
          /\ At(wp.compU, n2.t) = PairedU(n2)

----------------------------------------------------------------------------
(* Calls of SixBeamMethod                                                  *)

SixAzimuths == {0, 369, 531, 900, 1800, 2331, 2700}

\* the five slanted azimuths of a scan pattern, in ascending order and with
\* repetitions
AzimuthTuples ==
    {s \in [1..5 -> SixAzimuths] : \A i \in 1..4 : s[i] <= s[i + 1]}

RegularAzimuths == <<0, 531, 900, 1800, 2700>>

Weather == {"steady", "calm", "gusty"}

\* radial velocity of beam b (1..5 slanted, 6 vertical) in profile k
Radial(w, b, k) ==
    CASE w = "steady" -> 1
      [] w = "calm"   -> IF b = 6 THEN k % 2 ELSE 1
      [] w = "gusty"  -> IF b = 6 THEN k % 2 ELSE (b * k) % 3

\* the one missing sample <<beam, profile>> of a dataset, if any
Gaps == {<<>>} \cup {<<b, k>> : b \in 1..6, k \in 1..NumProfiles}

RadialValue(w, g, b, k) == IF g = <<b, k>> THEN NaN ELSE QInt(Radial(w, b, k))

\* slanted profiles at times 10k, vertical profiles at 10k + off
RestructuredData(r, e, azm, w, g, off) ==
    [restructured |-> r, elv |-> e, azm |-> azm,
     data_transf |->
        [k \in 1..NumProfiles |->
            [t |-> 10 * k, v |-> [b \in 1..5 |-> RadialValue(w, g, b, k)]]],
     data_transf_90 |->
        [k \in 1..NumProfiles |->
            [t |-> 10 * k + off, v |-> <<RadialValue(w, g, 6, k)>>]]]

\* every geometry with one series, and two geometries with every series
SixBeamInputs ==
    {RestructuredData(TRUE, e, azm, "gusty", <<>>, 4) :
        e \in {369, 531}, azm \in AzimuthTuples}
    \cup {RestructuredData(TRUE, e, RegularAzimuths, "gusty", <<>>, 4) :
            e \in {0, 900}}
    \cup {RestructuredData(r, e, RegularAzimuths, w, g, off) :
            r \in BOOLEAN, e \in {369, 531}, w \in Weather, g \in Gaps,
            off \in {-4, 4}}

Freqs == {3, 4}

CallSixBeam ==
    \E freq \in Freqs, freq90 \in Freqs :
        /\ sixBeam' = SixBeamMethod(data, freq, freq90)
        /\ UNCHANGED <<data, wp, fftRet>>

InitSix ==
    /\ data \in SixBeamInputs
    /\ wp = NoObject
    /\ sixBeam = NoSixBeam
    /\ fftRet = NoFft

NextSix == ~sixBeam.made /\ CallSixBeam

SpecSix == InitSix /\ [][NextSix]_vars

----------------------------------------------------------------------------
(* Calls of SixBeamMethod.get_variance: data holds its arguments           *)

SeriesValues == {NaN, QInt(0), QInt(2)}

VarianceCalls ==
    {[data |-> [k \in 1..NumProfiles |-> [t |-> 10 * k, v |-> <<s[k]>>]],
      freq |-> f] :
        s \in [1..NumProfiles -> SeriesValues], f \in 1..MaxFreq}

CallGetVariance ==
    /\ sixBeam' = get_variance(sixBeam, data.data, data.freq, "rVariance")
    /\ UNCHANGED <<data, wp, fftRet>>

\* the object as line 65 of __init__ leaves it
InitVar ==
    /\ data \in VarianceCalls
    /\ wp = NoObject
    /\ sixBeam = [NoSixBeam EXCEPT !.made = TRUE,
                                   !.fields = {"radial_variances"}]
    /\ fftRet = NoFft

NextVar == sixBeam.trace = <<>> /\ CallGetVariance

SpecVar == InitVar /\ [][NextVar]_vars

----------------------------------------------------------------------------
(* Calls of fftWindPropRet                                                 *)

Fundamentals == {<<1, 0>>, <<0, 2>>, <<3, 4>>, <<-4, 3>>}
SecondHarmonics == {<<0, 0>>, <<0, 1>>}
Offsets == {0, 1}

Scan(n, e, f, s, c) ==
    [n |-> n, elv |-> e,
     harmonics |-> <<[h |-> 0, a |-> c, b |-> 0],
                     [h |-> 1, a |-> f[1], b |-> f[2]],
                     [h |-> 2, a |-> s[1], b |-> s[2]]>>]

Scans ==
    {Scan(n, e, f, s, c) : n \in 2..MaxAzm, e \in {369, 600},
                           f \in Fundamentals, s \in SecondHarmonics,
                           c \in Offsets}

CallFft ==
    /\ fftRet' = FftWindPropRet(data)
    /\ UNCHANGED <<data, wp, sixBeam>>

InitFft ==
    /\ data \in Scans
    /\ wp = NoObject
    /\ sixBeam = NoSixBeam
    /\ fftRet = NoFft

NextFft == ~fftRet.made /\ CallFft

SpecFft == InitFft /\ [][NextFft]_vars

----------------------------------------------------------------------------
(* C5: SixBeamMethod called with data that is not a GetRestructuredData    *)
(* raises TypeError at once: no method of the retrieval has been called    *)
(* and no attribute of the object (m_matrix, m_matrix_inv,                 *)
(* radial_variances, sigma_matrix, var_comp_ds, nor any other) is set.     *)

C5_TypeErrorBeforeAnything ==
    (sixBeam.made /\ ~data.restructured) =>
        /\ sixBeam.raised = "TypeError"
        /\ sixBeam.trace = <<>>
        /\ sixBeam.fields = {}

C5_Witness ==
    /\ sixBeam.made
    /\ ~data.restructured
    /\ data.data_transf # <<>>
    /\ sixBeam.raised # "none"

----------------------------------------------------------------------------
(* C6: at a slanted elevation other than 0 and 90 degrees, five pairwise   *)
(* distinct azimuths give a geometry matrix that is inverted (the product  *)
(* of m_matrix and m_matrix_inv is the identity); five identical azimuths, *)
(* or five azimuths all within one antipodal pair {a, a + 180}, make the   *)
(* inversion raise LinAlgError, with m_matrix set and nothing after it:    *)
(* no radial variance, no s_matrix, no sigma_matrix, no var_comp_ds.       *)

MatMul(a, b) ==
    Row6(LAMBDA r : Row6(LAMBDA c :
        QSum(Row6(LAMBDA j : QMul(a[r][j], b[j][c])))))

Distinct(azm) == \A i, j \in 1..5 : i # j => azm[i] # azm[j]

Identical(azm) == \A i, j \in 1..5 : azm[i] = azm[j]

AntipodalDegenerate(azm) ==
    \E a \in SixAzimuths : \A i \in 1..5 : azm[i] \in {a, (a + 1800) % 3600}

SlantedElevation == data.restructured /\ data.elv \notin {0, 900}

C6_GeometryMatrixInversion ==
    (sixBeam.made /\ SlantedElevation) =>
        /\ Distinct(data.azm) =>
              /\ sixBeam.raised # "LinAlgError"
              /\ "m_matrix_inv" \in sixBeam.fields
              /\ MatMul(sixBeam.m_matrix, sixBeam.m_matrix_inv) = Identity
        /\ (Identical(data.azm) \/ AntipodalDegenerate(data.azm)) =>
              /\ sixBeam.raised = "LinAlgError"
              /\ sixBeam.fields = {"elv", "azm", "m_matrix"}
              /\ sixBeam.trace = <<"get_m_matrix", "get_m_matrix_inv">>

C6_Witness ==
    /\ sixBeam.made
    /\ SlantedElevation
    /\ AntipodalDegenerate(data.azm)
    /\ ~Identical(data.azm)
    /\ sixBeam.raised = "LinAlgError"

----------------------------------------------------------------------------
(* C7 as claimed: wherever they are defined, var_u, var_v and var_w are    *)
(* not negative.                                                           *)

VarComp(name) ==
    LET e == CHOOSE i \in 1..6 : sixBeam.var_comp_ds[i].name = name
    IN  sixBeam.var_comp_ds[e].values

Solved == sixBeam.made /\ "var_comp_ds" \in sixBeam.fields

C7_DiagonalNonNegative ==
    Solved =>
        \A name \in {"u", "v", "w"} :
            \A k \in 1..Len(VarComp(name)) :
                IsNaN(VarComp(name)[k].v) \/ QGe0(VarComp(name)[k].v)

(* C7 as it holds: wherever it is defined, var_w is the rolling variance   *)
(* of the vertical beam at that time and is not negative (var_u and var_v  *)
(* can be negative).                                                       *)

C7_VerticalVarianceNonNegative ==
    Solved =>
        \A k \in 1..Len(VarComp("w")) :
            LET w == VarComp("w")[k].v
            IN  ~IsNaN(w) =>
                  /\ QGe0(w)
                  /\ w = sixBeam.radial_variances["rVariance90"][k].v[1]

C7_Witness ==
    /\ Solved
    /\ \E k \in 1..Len(VarComp("w")) :
          /\ ~IsNaN(VarComp("w")[k].v)
          /\ VarComp("w")[k].v[1] > 0
          /\ ~IsNaN(VarComp("u")[k].v)
          /\ VarComp("u")[k].v[1] < 0

----------------------------------------------------------------------------
(* C8: whatever the number of azimuths of the scan, the bin getCompAmp     *)
(* selects is that of the fundamental harmonic: one cycle per 360 degrees. *)

C8_SelectsFundamental ==
    fftRet.made => fftRet.compAmp.freq_azm = Q(1, 360)

----------------------------------------------------------------------------
(* C9: get_variance never raises, and at every time step the rolling       *)
(* variance is defined if and only if the samples present in the centred   *)
(* window are at least 30% of freq.                                        *)

PresentInWindow(i) ==
    Cardinality({j \in Window(Len(data.data), i, data.freq) :
                    ~IsNaN(data.data[j].v[1])})

C9_EmitsFromThirtyPercent ==
    sixBeam.trace = <<"get_variance">> =>
        /\ sixBeam.raised = "none"
        /\ \A i \in 1..Len(data.data) :
              ~IsNaN(sixBeam.radial_variances["rVariance"][i].v[1])
                  <=> 10 * PresentInWindow(i) >= 3 * data.freq

----------------------------------------------------------------------------
(* C11: on a dataset with a vertical beam, a call whose method is neither  *)
(* 'single_dbs' nor 'continuous' runs no policy, sets neither compV nor    *)
(* compU, and raises in calcHorWindSpeed (AttributeError) without setting  *)
(* horWindSpeed or horWindDir; a call with one of the two recognised       *)
(* methods runs that policy and no other, once, after correctVertWindComp  *)
(* and before calcHorWindSpeed and calcHorWindDir.                         *)

PolicyCalls ==
    SelectSeq(wp.trace,
              LAMBDA c : c \in {"calcHorWindComp_single_dbs",
                                "calcHorWindComp_continuous"})

C11_MethodDispatch ==
    (wp.made /\ VerWindSpeed(data) # <<>>) =>
        /\ wp.method \notin {"single_dbs", "continuous"} =>
              /\ wp.raised = "AttributeError"
              /\ PolicyCalls = <<>>
              /\ wp.trace[Len(wp.trace)] = "calcHorWindSpeed"
              /\ wp.fields \cap {"compV", "compU", "horWindSpeed",
                                 "horWindDir"} = {}
        /\ wp.method \in {"single_dbs", "continuous"} =>
              /\ wp.raised = "none"
              /\ PolicyCalls = <<"calcHorWindComp_" \o wp.method>>
              /\ wp.trace = <<"correctVertWindComp", PolicyCalls[1],
                              "calcHorWindSpeed", "calcHorWindDir">>
              /\ {"compV", "compU", "horWindSpeed", "horWindDir"}
                    \subseteq wp.fields

C11_Witness ==
    /\ wp.made
    /\ VerWindSpeed(data) # <<>>
    /\ wp.method = "Continuous"
    /\ wp.raised = "AttributeError"
    /\ wp.trace = <<"correctVertWindComp", "calcHorWindSpeed">>

====
